---- MODULE Spec2Model ----
(***************************************************************************)
(* Model of frontend.py: the Streamlit script main(), the Report Analyzer  *)
(* analyze_medical_report() with its fallback, the Content Extractor       *)
(* extract_text_from_pdf() and the Doctor Finder get_doctors().            *)
(*                                                                         *)
(* A Python string is a sequence of chunks (TLA+ strings); concatenation   *)
(* and f-string interpolation are \o.  Document text is a sequence of      *)
(* one-character chunks, so that str.split() sees every character.        *)
(***************************************************************************)
EXTENDS Integers, Sequences, FiniteSets, TLC

\* ------------------------------------------------------------- bounds
MaxLen == 4
MaxPages == 2
MaxResults == 7
MaxRenders == 3

\* ------------------------------------------------- program constants
MAX_RETRIES == 3
RETRY_DELAY == 2
HTTP_OK == 200
MAX_DOCTORS == 5

VARIABLES
    google_maps_api_key,  \* module-level credential of the places API
    pc,                   \* position of main() in the current script run
    renders,              \* script runs started so far
    location, file_type, uploaded_file, pressed,   \* widget values of the run
    shown,                \* the analyze button the previous run displayed
    files,                \* temporary files existing on disk
    tmp_file_path, image, pdf_text, analysis, doctors,  \* locals of main()
    a_pc, content, content_type, attempt, exc, a_ret,   \* analyze_medical_report frame
    d_pc, d_location, specialization, response, d_ret,  \* get_doctors frame
    ui,                   \* what the run has put on the page, in order
    log                   \* calls made to the outside world, in order

mainVars == <<pc, renders, location, file_type, uploaded_file, pressed, shown,
              files, tmp_file_path, image, pdf_text, analysis, doctors>>
analyzerVars == <<a_pc, content, content_type, attempt, exc, a_ret>>
doctorVars == <<d_pc, d_location, specialization, response, d_ret>>
vars == <<google_maps_api_key, mainVars, analyzerVars, doctorVars, ui, log>>

\* ---------------------------------------------------------- strings
Whitespace == {" ", "\n"}
Chars == {"a", " ", "\n"}

RECURSIVE SeqsUpTo(_, _)
SeqsUpTo(S, n) ==
    IF n = 0 THEN {<<>>}
    ELSE LET shorter == SeqsUpTo(S, n - 1)
         IN  shorter \cup {Append(s, x) : s \in {t \in shorter : Len(t) = n - 1}, x \in S}

Digits == <<"0", "1", "2", "3", "4", "5", "6", "7", "8", "9">>

\* str(n) of a non-negative integer: its decimal digits
RECURSIVE Str(_)
Str(n) == IF n < 10 THEN <<Digits[n + 1]>>
          ELSE Str(n \div 10) \o <<Digits[(n % 10) + 1]>>

\* s contains sub as a contiguous run of chunks
Contains(s, sub) ==
    \E i \in 0..(Len(s) - Len(sub)) : SubSeq(s, i + 1, i + Len(sub)) = sub

\* Python values a function can hand back: a string, a list, or None
StrVal(s) == [kind |-> "str", v |-> s]
ListVal(l) == [kind |-> "list", v |-> l]
NoneVal == [kind |-> "None", v |-> <<>>]

NoResponse == [status_code |-> 0, json |-> FALSE, has_results |-> FALSE, results |-> <<>>]

Event(op, n, arg) == [op |-> op, n |-> n, arg |-> arg]
Msg(level, text) == [level |-> level, text |-> text]

\* ---------------------------------------------------------- inputs
Texts == SeqsUpTo(Chars, MaxLen)
Images == {<<"<image 1>">>, <<"<image 2>">>}
ModelTexts == {<<"1. Current health issues ...">>, <<>>}
ExcTexts == {<<"503 Service Unavailable">>, <<"429 Quota exceeded">>}

\* ------------------------------------------------ fallback_analysis
\* str.split() with no separator: maximal runs of non-whitespace characters
RECURSIVE SplitFrom(_, _, _)
SplitFrom(s, i, word) ==
    IF i > Len(s) THEN (IF word = <<>> THEN <<>> ELSE <<word>>)
    ELSE IF s[i] \in Whitespace
         THEN (IF word = <<>> THEN <<>> ELSE <<word>>) \o SplitFrom(s, i + 1, <<>>)
         ELSE SplitFrom(s, i + 1, Append(word, s[i]))

\* a plausible slip: split(" "), which cuts at every single blank and keeps empty words
RECURSIVE SplitOnBlankFrom(_, _, _)
SplitOnBlankFrom(s, i, word) ==
    IF i > Len(s) THEN <<word>>
    ELSE IF s[i] = " "
         THEN <<word>> \o SplitOnBlankFrom(s, i + 1, <<>>)
         ELSE SplitOnBlankFrom(s, i + 1, Append(word, s[i]))

SplitOnBlank(s) == SplitOnBlankFrom(s, 1, <<>>)

split(s) == SplitFrom(s, 1, <<>>)

FallbackWarning == Msg("warning", <<"Using fallback analysis method due to API issues.">>)
ImageFallback == <<"Unable to analyze the image due to API issues. Please try again later.">>
NotAnalyzedLine ==
    <<"- Unable to analyze content in detail due to AI issues. Please consult a doctor manually.">>

\* the result of fallback_analysis(c, ctype) and the message it shows
fallback_analysis(c, ctype) ==
    [ui |-> <<FallbackWarning>>,
     ret |-> IF ctype = "image"
             THEN StrVal(ImageFallback)
             ELSE LET word_count == Len(split(c))
                  IN  StrVal(<<"Fallback Analysis:",
                               "- Document Type: Text-based medical report",
                               "- Word Count: ">> \o Str(word_count) \o <<" words">>
                             \o NotAnalyzedLine)]

\* ------------------------------------------- analyze_medical_report
RetryWarning(n) ==
    Msg("warning", <<"An error occurred. Retrying in ">> \o Str(RETRY_DELAY)
                   \o <<" seconds... (Attempt ">> \o Str(n + 1) \o <<"/">>
                   \o Str(MAX_RETRIES) \o <<")">>)
\* a plausible slip: the notice without the exception's text
FailureErrorGeneric(e) ==
    Msg("error", <<"Failed to analyze the report after ">> \o Str(MAX_RETRIES)
                 \o <<" attempts.">>)

FailureError(e) ==
    Msg("error", <<"Failed to analyze the report after ">> \o Str(MAX_RETRIES)
                 \o <<" attempts. Error: ">> \o e)

\* a plausible slip: the bound of the loop instead of its last index
RetriesLeftOffByOne(n) == n < MAX_RETRIES

\* line 49: is there another attempt after failed attempt n
RetriesLeft(n) == n < MAX_RETRIES - 1

\* entry of the function: the frame of a call analyze_medical_report(c, ctype)
AnalyzerCalled(c, ctype) ==
    /\ a_pc' = "try"
    /\ content' = c
    /\ content_type' = ctype
    /\ attempt' = 0
    /\ exc' = <<>>
    /\ a_ret' = NoneVal

\* a plausible slip: "except Exception", which takes every fault for an API error
AnalyzeAttemptCatchAll ==
    /\ a_pc = "try"
    /\ \/ \E text \in ModelTexts :
            /\ log' = Append(log, Event("generate_content", attempt, <<"ok">> \o text))
            /\ a_ret' = StrVal(text)
            /\ a_pc' = "returned"
            /\ exc' = exc
       \/ \E e \in ExcTexts :
            /\ log' = Append(log, Event("generate_content", attempt, <<"GoogleAPIError">>))
            /\ exc' = e
            /\ a_pc' = "except"
            /\ a_ret' = a_ret
       \/ /\ log' = Append(log, Event("generate_content", attempt, <<"fault">>))
          /\ exc' = <<"ValueError">>
          /\ a_pc' = "except"
          /\ a_ret' = a_ret
    /\ UNCHANGED <<content, content_type, attempt, ui>>
    /\ UNCHANGED <<google_maps_api_key, mainVars, doctorVars>>

\* lines 41-47: one model.generate_content call; it answers, or raises
\* GoogleAPIError, or raises something else (response.text included)
AnalyzeAttempt ==
    /\ a_pc = "try"
    /\ \/ \E text \in ModelTexts :
            /\ log' = Append(log, Event("generate_content", attempt, <<"ok">> \o text))
            /\ a_ret' = StrVal(text)
            /\ a_pc' = "returned"
            /\ exc' = exc
       \/ \E e \in ExcTexts :
            /\ log' = Append(log, Event("generate_content", attempt, <<"GoogleAPIError">>))
            /\ exc' = e
            /\ a_pc' = "except"
            /\ a_ret' = a_ret
       \/ /\ log' = Append(log, Event("generate_content", attempt, <<"fault">>))
          /\ a_pc' = "raised"
          /\ UNCHANGED <<exc, a_ret>>
    /\ UNCHANGED <<content, content_type, attempt, ui>>
    /\ UNCHANGED <<google_maps_api_key, mainVars, doctorVars>>

\* lines 48-54 and the loop head of line 40: the handler of GoogleAPIError
AnalyzeExcept ==
    /\ a_pc = "except"
    /\ IF RetriesLeft(attempt)
       THEN /\ ui' = Append(ui, RetryWarning(attempt))
            /\ log' = Append(log, Event("sleep", RETRY_DELAY, <<>>))
            /\ attempt' = attempt + 1
            /\ IF attempt + 1 < MAX_RETRIES
               THEN a_pc' = "try" /\ a_ret' = a_ret
               ELSE a_pc' = "returned" /\ a_ret' = NoneVal
       ELSE LET fb == fallback_analysis(content.v, content_type)
            IN  /\ ui' = Append(ui, FailureError(exc)) \o fb.ui
                /\ log' = Append(log, Event("fallback_analysis", attempt, <<>>))
                /\ a_ret' = fb.ret
                /\ a_pc' = "returned"
                /\ attempt' = attempt
    /\ UNCHANGED <<content, content_type, exc>>
    /\ UNCHANGED <<google_maps_api_key, mainVars, doctorVars>>

\* ------------------------------------------------------- get_doctors
Locations == {<<>>, <<"Pune">>, <<"Bangalore, India">>}
Specializations == {<<"General Practitioner">>, <<"Cardiologist">>}
Statuses == {200, 204, 404, 500}

\* the places API's result entries: the i-th doctor of its index, and an entry
\* that lacks formatted_address
Doc(i) == [name |-> <<"Dr. ">> \o Str(i), formatted_address |-> <<"Addr ">> \o Str(i)]
Nameless(i) == [name |-> <<"Dr. ">> \o Str(i)]
WellFormed(doc) == {"name", "formatted_address"} \subseteq DOMAIN doc

\* result arrays: n entries of the index from the top or from the bottom, at
\* most one of them (the k-th) malformed
ResultArrays ==
    {[i \in 1..n |-> LET d == IF up THEN i ELSE n + 1 - i
                      IN  IF i = k THEN Nameless(d) ELSE Doc(d)] :
        n \in 0..MaxResults, k \in 0..MaxResults, up \in BOOLEAN}

Response(status, json, has_results, results) ==
    [status_code |-> status, json |-> json, has_results |-> has_results, results |-> results]

\* what the places API may answer: a results array, a JSON object without
\* one, or a body that is no JSON
Responses ==
    {Response(st, TRUE, TRUE, r) : st \in {200}, r \in ResultArrays}
    \cup {Response(st, TRUE, TRUE, r) : st \in Statuses, r \in {<<>>, <<Doc(1)>>, <<Nameless(1)>>}}
    \cup {Response(st, j, FALSE, <<>>) : st \in Statuses, j \in BOOLEAN}

KeyNotFound == <<"Google Maps API Key not found. Cannot fetch doctor recommendations.">>
NoDoctorsFound == <<"No doctors found or API issue occurred.">>

\* a plausible slip: "is None", which lets an empty key through
NotConfiguredNoneOnly(key) == key.kind = "None"

\* line 78: not google_maps_api_key
NotConfigured(key) == key.kind = "None" \/ key.v = <<>>

\* line 81: the request URL
Url(loc, spec, key) ==
    <<"https://maps.googleapis.com/maps/api/place/textsearch/json?query=">> \o spec
    \o <<"+doctor+near+">> \o loc \o <<"&key=">> \o key.v

\* a plausible slip: every 2xx status taken for success
StatusOkAny2xx(status) == status \in 200..299

\* line 84: response.status_code == 200
StatusOk(status) == status = HTTP_OK

\* a plausible slip: no cap on the listing
SliceAll(results) == results

\* line 86: results[:5]
Slice(results) ==
    SubSeq(results, 1, IF Len(results) < MAX_DOCTORS THEN Len(results) ELSE MAX_DOCTORS)

\* line 86: f"{doc['name']} - {doc['formatted_address']}"
FormatDoctor(doc) == doc.name \o <<" - ">> \o doc.formatted_address

\* entry of the function: the frame of a call get_doctors(loc, spec)
DoctorsCalled(loc, spec) ==
    /\ d_pc' = "guard"
    /\ d_location' = loc
    /\ specialization' = spec
    /\ response' = NoResponse
    /\ d_ret' = NoneVal

\* lines 78-79: the credential guard
GetDoctorsGuard ==
    /\ d_pc = "guard"
    /\ IF NotConfigured(google_maps_api_key)
       THEN d_ret' = ListVal(<<KeyNotFound>>) /\ d_pc' = "returned"
       ELSE d_ret' = d_ret /\ d_pc' = "request"
    /\ UNCHANGED <<d_location, specialization, response, ui, log>>
    /\ UNCHANGED <<google_maps_api_key, mainVars, analyzerVars>>

\* lines 81-82: requests.get(url); it answers, or raises (no connection)
GetDoctorsRequest ==
    /\ d_pc = "request"
    /\ log' = Append(log, Event("requests.get", 0,
                                Url(d_location, specialization, google_maps_api_key)))
    /\ \/ \E r \in Responses : response' = r /\ d_pc' = "status"
       \/ response' = response /\ d_pc' = "raised"
    /\ UNCHANGED <<d_location, specialization, d_ret, ui>>
    /\ UNCHANGED <<google_maps_api_key, mainVars, analyzerVars>>

\* lines 84-87: the status check, the parse of the body and the listing
GetDoctorsResult ==
    /\ d_pc = "status"
    /\ IF StatusOk(response.status_code)
       THEN /\ log' = Append(log, Event("response.json", 0, <<>>))
            /\ IF ~response.json
               THEN d_pc' = "raised" /\ d_ret' = d_ret
               ELSE LET results == IF response.has_results THEN response.results ELSE <<>>
                        first == Slice(results)
                    IN  IF \E i \in DOMAIN first : ~WellFormed(first[i])
                        THEN d_pc' = "raised" /\ d_ret' = d_ret
                        ELSE /\ d_ret' = ListVal([i \in DOMAIN first |-> FormatDoctor(first[i])])
                             /\ d_pc' = "returned"
       ELSE /\ log' = log
            /\ d_ret' = ListVal(<<NoDoctorsFound>>)
            /\ d_pc' = "returned"
    /\ UNCHANGED <<d_location, specialization, response, ui>>
    /\ UNCHANGED <<google_maps_api_key, mainVars, analyzerVars>>

\* ------------------------------------------------------------ values
NoFile == [kind |-> "none", ok |-> TRUE, v |-> <<>>]
NoContent == [kind |-> "none", v |-> <<>>]

MainIdle ==
    /\ renders = 0
    /\ location = <<>>
    /\ file_type = "Image"
    /\ uploaded_file = NoFile
    /\ pressed = FALSE
    /\ shown = "none"
    /\ files = {}
    /\ tmp_file_path = 0
    /\ image = NoContent
    /\ pdf_text = <<>>
    /\ analysis = NoneVal
    /\ doctors = NoneVal

AnalyzerIdle ==
    /\ a_pc = "idle"
    /\ content = NoContent
    /\ content_type = "none"
    /\ attempt = 0
    /\ exc = <<>>
    /\ a_ret = NoneVal

DoctorsIdle ==
    /\ d_pc = "idle"
    /\ d_location = <<>>
    /\ specialization = <<>>
    /\ response = NoResponse
    /\ d_ret = NoneVal

Keys == {NoneVal, StrVal(<<>>), StrVal(<<"AIza-key">>)}

\* ------------------------------------------------ extract_text_from_pdf
PageTexts == {<<>>, <<"a">>, <<" ", "a">>}
PageLists == SeqsUpTo(PageTexts, MaxPages)

\* lines 72-75: the pages' texts, appended in page order
RECURSIVE extract_text_from_pdf(_)
extract_text_from_pdf(pages) ==
    IF pages = <<>> THEN <<>>
    ELSE Head(pages) \o extract_text_from_pdf(Tail(pages))

\* ----------------------------------------------------------------- main
\* "\n".join(list)
RECURSIVE Join(_)
Join(list) ==
    IF list = <<>> THEN <<>>
    ELSE IF Len(list) = 1 THEN list[1]
    ELSE list[1] \o <<"\n">> \o Join(Tail(list))

\* what the uploader of a branch can hold: nothing, or a file of an accepted
\* extension whose bytes the library can (ok) or cannot read
Uploads(ftype) ==
    {NoFile} \cup
    IF ftype = "Image"
    THEN {[kind |-> "image", ok |-> b, v |-> i] : b \in BOOLEAN, i \in Images}
    ELSE {[kind |-> "pdf", ok |-> b, v |-> p] : b \in BOOLEAN, p \in PageLists}

MainLocalsReset ==
    /\ tmp_file_path' = 0
    /\ image' = NoContent
    /\ pdf_text' = <<>>
    /\ analysis' = NoneVal
    /\ doctors' = NoneVal

AnalyzerFramePopped ==
    /\ a_pc' = "idle"
    /\ content' = NoContent
    /\ content_type' = "none"
    /\ attempt' = 0
    /\ exc' = <<>>
    /\ a_ret' = NoneVal

DoctorsFramePopped ==
    /\ d_pc' = "idle"
    /\ d_location' = <<>>
    /\ specialization' = <<>>
    /\ response' = NoResponse
    /\ d_ret' = NoneVal

\* a script run starts: the user changed a widget, or pressed the analyze
\* button the previous run displayed (the widgets keep their values)
Rerun ==
    /\ pc \in {"idle", "done", "fault"}
    /\ renders < MaxRenders
    /\ renders' = renders + 1
    /\ \/ /\ shown # "none"
          /\ pressed' = TRUE
          /\ UNCHANGED <<location, file_type, uploaded_file>>
       \/ /\ pressed' = FALSE
          /\ location' \in {<<>>, <<"Pune">>}
          /\ file_type' \in {"Image", "PDF"}
          /\ uploaded_file' \in Uploads(file_type')
    /\ shown' = "none"
    /\ pc' = "main"
    /\ ui' = <<>>
    /\ log' = <<>>
    /\ MainLocalsReset
    /\ UNCHANGED <<files, google_maps_api_key, analyzerVars, doctorVars>>

\* lines 90-99 and 121-123: the widgets and the branch on the file type
MainStart ==
    /\ pc = "main"
    /\ IF uploaded_file = NoFile
       THEN pc' = "done" /\ ui' = <<Msg("title", <<"HEALTH DIAGNOSIS">>)>>
       ELSE IF file_type = "Image"
            THEN pc' = "img_tmp" /\ ui' = <<Msg("title", <<"HEALTH DIAGNOSIS">>)>>
            ELSE /\ pc' = "pdf_button"
                 /\ ui' = <<Msg("title", <<"HEALTH DIAGNOSIS">>),
                            Msg("write", <<"PDF uploaded successfully">>)>>
    /\ UNCHANGED <<renders, location, file_type, uploaded_file, pressed, shown, files,
                   tmp_file_path, image, pdf_text, analysis, doctors, log>>
    /\ UNCHANGED <<google_maps_api_key, analyzerVars, doctorVars>>

\* NamedTemporaryFile(delete=False): a new file, named after the run
TmpFileCreated ==
    /\ tmp_file_path' = renders
    /\ files' = files \cup {renders}
    /\ log' = Append(log, Event("NamedTemporaryFile", renders, <<>>))

\* lines 100-102: the upload is written to a temporary file
ImgTmpFile ==
    /\ pc = "img_tmp"
    /\ TmpFileCreated
    /\ pc' = "img_open"
    /\ UNCHANGED <<renders, location, file_type, uploaded_file, pressed, shown,
                   image, pdf_text, analysis, doctors, ui>>
    /\ UNCHANGED <<google_maps_api_key, analyzerVars, doctorVars>>

\* lines 104-105: Image.open and st.image; unreadable bytes raise
ImgOpen ==
    /\ pc = "img_open"
    /\ IF uploaded_file.ok
       THEN /\ image' = [kind |-> "image", v |-> uploaded_file.v]
            /\ ui' = Append(ui, Msg("image", uploaded_file.v))
            /\ pc' = "img_button"
       ELSE /\ pc' = "fault"
            /\ UNCHANGED <<image, ui>>
    /\ UNCHANGED <<renders, location, file_type, uploaded_file, pressed, shown, files,
                   tmp_file_path, pdf_text, analysis, doctors, log>>
    /\ UNCHANGED <<google_maps_api_key, analyzerVars, doctorVars>>

\* lines 107-109: the button of the image branch; pressed, it calls the analyzer
ImgButton ==
    /\ pc = "img_button"
    /\ shown' = "Analyze Image Report"
    /\ IF pressed
       THEN /\ AnalyzerCalled(image, "image")
            /\ log' = Append(log, Event("analyze_medical_report", 0, <<"call">>))
            /\ pc' = "img_analyzing"
       ELSE /\ pc' = "img_unlink"
            /\ UNCHANGED <<analyzerVars, log>>
    /\ UNCHANGED <<renders, location, file_type, uploaded_file, pressed, files,
                   tmp_file_path, image, pdf_text, analysis, doctors, ui>>
    /\ UNCHANGED <<google_maps_api_key, doctorVars>>

\* a plausible slip: the listing asked for whatever the location field holds
LocationGivenAlways(loc) == TRUE

\* lines 113 and 138: "if location:", true of a non-empty string
LocationGiven(loc) == loc # <<>>

\* lines 110-114 and 135-139: the analysis is shown; with a location given,
\* get_doctors is called
AnalysisShown(doctorsPc, nextPc) ==
    /\ a_pc = "returned"
    /\ analysis' = a_ret
    /\ ui' = ui \o <<Msg("subheader", <<"Report Analysis Results:">>), Msg("write", a_ret.v)>>
    /\ AnalyzerFramePopped
    /\ IF LocationGiven(location)
       THEN /\ DoctorsCalled(location, <<"General Practitioner">>)
            /\ log' = log \o <<Event("analyze_medical_report", 0, <<"return">>),
                               Event("get_doctors", 0, <<"call">>)>>
            /\ pc' = doctorsPc
       ELSE /\ log' = Append(log, Event("analyze_medical_report", 0, <<"return">>))
            /\ pc' = nextPc
            /\ UNCHANGED doctorVars
    /\ UNCHANGED <<renders, location, file_type, uploaded_file, pressed, shown, files,
                   tmp_file_path, image, pdf_text, doctors>>
    /\ UNCHANGED google_maps_api_key

\* lines 114-116 and 139-141: the listing is shown
DoctorsShown(nextPc) ==
    /\ d_pc = "returned"
    /\ doctors' = d_ret
    /\ ui' = ui \o <<Msg("subheader", <<"Recommended Doctors:">>), Msg("write", Join(d_ret.v))>>
    /\ log' = Append(log, Event("get_doctors", 0, <<"return">>))
    /\ DoctorsFramePopped
    /\ pc' = nextPc
    /\ UNCHANGED <<renders, location, file_type, uploaded_file, pressed, shown, files,
                   tmp_file_path, image, pdf_text, analysis>>
    /\ UNCHANGED <<google_maps_api_key, analyzerVars>>

\* os.unlink(tmp_file_path)
Unlinked(nextPc) ==
    /\ files' = files \ {tmp_file_path}
    /\ log' = Append(log, Event("os.unlink", tmp_file_path, <<>>))
    /\ pc' = nextPc
    /\ UNCHANGED <<renders, location, file_type, uploaded_file, pressed, shown,
                   tmp_file_path, image, pdf_text, analysis, doctors, ui>>
    /\ UNCHANGED <<google_maps_api_key, analyzerVars, doctorVars>>

ImgAnalyzed == pc = "img_analyzing" /\ AnalysisShown("img_doctors", "img_unlink")

ImgDoctors == pc = "img_doctors" /\ DoctorsShown("img_unlink")

\* line 118: the image branch unlinks after the button's block
ImgUnlink == pc = "img_unlink" /\ Unlinked("done")

\* line 125: the button of the PDF branch
PdfButton ==
    /\ pc = "pdf_button"
    /\ shown' = "Analyze PDF Report"
    /\ pc' = IF pressed THEN "pdf_tmp" ELSE "done"
    /\ UNCHANGED <<renders, location, file_type, uploaded_file, pressed, files,
                   tmp_file_path, image, pdf_text, analysis, doctors, ui, log>>
    /\ UNCHANGED <<google_maps_api_key, analyzerVars, doctorVars>>

\* lines 127-129: the upload is written to a temporary file
PdfTmpFile ==
    /\ pc = "pdf_tmp"
    /\ TmpFileCreated
    /\ pc' = "pdf_extract"
    /\ UNCHANGED <<renders, location, file_type, uploaded_file, pressed, shown,
                   image, pdf_text, analysis, doctors, ui>>
    /\ UNCHANGED <<google_maps_api_key, analyzerVars, doctorVars>>

\* lines 131-134: the text is extracted (an unreadable PDF raises) and the
\* analyzer is called with it
PdfExtract ==
    /\ pc = "pdf_extract"
    /\ IF uploaded_file.ok
       THEN /\ pdf_text' = extract_text_from_pdf(uploaded_file.v)
            /\ AnalyzerCalled([kind |-> "text", v |-> pdf_text'], "text")
            /\ log' = log \o <<Event("extract_text_from_pdf", 0, <<"return">>),
                               Event("analyze_medical_report", 0, <<"call">>)>>
            /\ pc' = "pdf_analyzing"
       ELSE /\ log' = Append(log, Event("extract_text_from_pdf", 0, <<"fault">>))
            /\ pc' = "fault"
            /\ UNCHANGED <<pdf_text, analyzerVars>>
    /\ UNCHANGED <<renders, location, file_type, uploaded_file, pressed, shown, files,
                   tmp_file_path, image, analysis, doctors, ui>>
    /\ UNCHANGED <<google_maps_api_key, doctorVars>>

PdfAnalyzed == pc = "pdf_analyzing" /\ AnalysisShown("pdf_doctors", "pdf_unlink")

PdfDoctors == pc = "pdf_doctors" /\ DoctorsShown("pdf_unlink")

\* line 143: the PDF branch unlinks at the end of the button's block
PdfUnlink == pc = "pdf_unlink" /\ Unlinked("done")

\* lines 109 and 134: a fault of the analyzer leaves main() unhandled
AnalyzerRaised ==
    /\ pc \in {"img_analyzing", "pdf_analyzing"}
    /\ a_pc = "raised"
    /\ pc' = "fault"
    /\ log' = Append(log, Event("analyze_medical_report", 0, <<"fault">>))
    /\ AnalyzerFramePopped
    /\ UNCHANGED <<renders, location, file_type, uploaded_file, pressed, shown, files,
                   tmp_file_path, image, pdf_text, analysis, doctors, ui>>
    /\ UNCHANGED <<google_maps_api_key, doctorVars>>

\* lines 114 and 139: a fault of get_doctors leaves main() unhandled
DoctorsRaised ==
    /\ pc \in {"img_doctors", "pdf_doctors"}
    /\ d_pc = "raised"
    /\ pc' = "fault"
    /\ log' = Append(log, Event("get_doctors", 0, <<"fault">>))
    /\ DoctorsFramePopped
    /\ UNCHANGED <<renders, location, file_type, uploaded_file, pressed, shown, files,
                   tmp_file_path, image, pdf_text, analysis, doctors, ui>>
    /\ UNCHANGED <<google_maps_api_key, analyzerVars>>

\* ------------------------------------------------- the running script
Init ==
    /\ google_maps_api_key \in Keys
    /\ pc = "idle"
    /\ MainIdle
    /\ AnalyzerIdle
    /\ DoctorsIdle
    /\ ui = <<>>
    /\ log = <<>>

Next ==
    \/ Rerun
    \/ MainStart
    \/ ImgTmpFile \/ ImgOpen \/ ImgButton \/ ImgAnalyzed \/ ImgDoctors \/ ImgUnlink
    \/ PdfButton \/ PdfTmpFile \/ PdfExtract \/ PdfAnalyzed \/ PdfDoctors \/ PdfUnlink
    \/ AnalyzerRaised \/ DoctorsRaised
    \/ AnalyzeAttempt \/ AnalyzeExcept
    \/ GetDoctorsGuard \/ GetDoctorsRequest \/ GetDoctorsResult

Spec == Init /\ [][Next]_vars

\* ------------------------------------ one call of the Report Analyzer
InitAnalyzer ==
    /\ google_maps_api_key \in Keys
    /\ pc = "harness"
    /\ MainIdle
    /\ DoctorsIdle
    /\ \E c \in {[kind |-> "image", v |-> i] : i \in Images}
               \cup {[kind |-> "text", v |-> t] : t \in Texts} :
          /\ content = c
          /\ content_type = c.kind
    /\ a_pc = "try"
    /\ attempt = 0
    /\ exc = <<>>
    /\ a_ret = NoneVal
    /\ ui = <<>>
    /\ log = <<>>

NextAnalyzer == AnalyzeAttempt \/ AnalyzeExcept

SpecAnalyzer == InitAnalyzer /\ [][NextAnalyzer]_vars

\* -------------------------------------- one call of the Doctor Finder
InitDoctors ==
    /\ google_maps_api_key \in Keys
    /\ pc = "harness"
    /\ MainIdle
    /\ AnalyzerIdle
    /\ d_pc = "guard"
    /\ d_location \in Locations
    /\ specialization \in Specializations
    /\ response = NoResponse
    /\ d_ret = NoneVal
    /\ ui = <<>>
    /\ log = <<>>

NextDoctors == GetDoctorsGuard \/ GetDoctorsRequest \/ GetDoctorsResult

SpecDoctors == InitDoctors /\ [][NextDoctors]_vars

\* ================================================= Report Analyzer claims
IsAttempt(e) == e.op = "generate_content"
IsAttemptOrWait(e) == e.op \in {"generate_content", "sleep"}
IsFailedAttempt(e) == e.op = "generate_content" /\ e.arg = <<"GoogleAPIError">>
Timeline == SelectSeq(log, IsAttemptOrWait)
Attempts == Len(SelectSeq(log, IsAttempt))
FailedAttempts == Len(SelectSeq(log, IsFailedAttempt))
Ended == a_pc \in {"returned", "raised"}

\* C1: one invocation makes at most 3 attempts, one after the other (numbered
\* 0, 1, 2); every attempt that is followed by another one failed with an API
\* error and is separated from it by exactly one wait of 2 seconds; no wait
\* follows the last attempt.
C1_AttemptsAndWaits ==
    /\ Attempts <= 3
    /\ \A i \in DOMAIN Timeline :
          IF i % 2 = 1
          THEN /\ Timeline[i].op = "generate_content"
               /\ Timeline[i].n = (i - 1) \div 2
               /\ i < Len(Timeline) => Timeline[i].arg = <<"GoogleAPIError">>
          ELSE /\ Timeline[i].op = "sleep"
               /\ Timeline[i].n = 2
    /\ Ended => Len(Timeline) % 2 = 1

C1_Witness == a_pc = "returned" /\ Len(Timeline) = 5 /\ FailedAttempts = 3

\* the words of a text, counted without splitting it: the positions where a
\* non-blank character starts a run
WordsOf(s) ==
    Cardinality({i \in 1..Len(s) :
                    s[i] \notin {" ", "\n"} /\ (i = 1 \/ s[i - 1] \in {" ", "\n"})})

\* C2: after 3 attempts that all failed with an API error the invocation
\* returns the fallback: the fixed string for an image, and for a text of W
\* words a text that holds W and says that no detailed analysis was made.
C2_Fallback ==
    (a_pc = "returned" /\ FailedAttempts = 3) =>
        /\ content_type = "image" =>
              a_ret = StrVal(<<"Unable to analyze the image due to API issues. Please try again later.">>)
        /\ content_type = "text" =>
              /\ a_ret.kind = "str"
              /\ Contains(a_ret.v, <<"- Word Count: ">> \o Str(WordsOf(content.v)) \o <<" words">>)
              /\ Contains(a_ret.v, <<"- Unable to analyze content in detail due to AI issues. Please consult a doctor manually.">>)

C2_Witness ==
    /\ a_pc = "returned"
    /\ FailedAttempts = 3
    /\ content_type = "text"
    /\ WordsOf(content.v) = 2
    /\ content.v[1] \in Whitespace

CarriesExceptionText(m) == \E e \in ExcTexts : Contains(m.text, e)
IsRetryWarning(m) == m.level = "warning" /\ m.text[1] = "An error occurred. Retrying in "
IsFailureNotice(m) == m.level = "error" /\ m.text[1] = "Failed to analyze the report after "
IsFallbackNotice(m) ==
    m.level = "warning" /\ m.text = <<"Using fallback analysis method due to API issues.">>

\* C8 as stated: every message of one invocation is a retry warning or a final
\* failure notice, and none carries the text of the API exception.
C8_NoExceptionText ==
    \A i \in DOMAIN ui :
        /\ IsRetryWarning(ui[i]) \/ IsFailureNotice(ui[i]) \/ IsFallbackNotice(ui[i])
        /\ ~CarriesExceptionText(ui[i])

\* C8, amended: every message of one invocation is a retry warning, the final
\* failure notice or the fallback notice; the retry warnings and the fallback
\* notice carry no exception text; the final failure notice is shown only
\* after the 3rd failed attempt and ends with the text of that attempt's
\* API exception.
C8_Messages ==
    /\ \A i \in DOMAIN ui :
          /\ IsRetryWarning(ui[i]) \/ IsFailureNotice(ui[i]) \/ IsFallbackNotice(ui[i])
          /\ (IsRetryWarning(ui[i]) \/ IsFallbackNotice(ui[i])) => ~CarriesExceptionText(ui[i])
          /\ IsFailureNotice(ui[i]) => FailedAttempts = 3
    /\ (a_pc = "returned" /\ FailedAttempts = 3) =>
          /\ Len(ui) = 4
          /\ IsRetryWarning(ui[1]) /\ IsRetryWarning(ui[2])
          /\ IsFailureNotice(ui[3])
          /\ SubSeq(ui[3].text, Len(ui[3].text) - Len(exc) + 1, Len(ui[3].text)) = exc
          /\ exc \in ExcTexts
          /\ IsFallbackNotice(ui[4])

C8_Witness ==
    /\ a_pc = "returned"
    /\ FailedAttempts = 3
    /\ exc = <<"429 Quota exceeded">>
    /\ CarriesExceptionText(ui[3])

\* C10: a successful attempt is the last thing the invocation does and its text
\* is the result; the fallback runs only after exactly 3 failed attempts; a
\* fault that is no API error ends the invocation at once, unhandled; so an
\* invocation that has ended has a model text, a fallback text or a fault, and
\* never an absent result.
C10_Outcomes ==
    /\ \A i \in DOMAIN log :
          /\ (log[i].op = "generate_content" /\ log[i].arg[1] = "ok") =>
                /\ i = Len(log)
                /\ a_pc = "returned"
                /\ a_ret = StrVal(Tail(log[i].arg))
          /\ (log[i].op = "generate_content" /\ log[i].arg = <<"fault">>) =>
                /\ i = Len(log)
                /\ a_pc = "raised"
                /\ \A j \in DOMAIN ui : IsRetryWarning(ui[j])
          /\ log[i].op = "fallback_analysis" =>
                /\ i = Len(log)
                /\ Attempts = 3 /\ FailedAttempts = 3
                /\ a_pc = "returned"
    /\ a_pc = "returned" =>
          /\ a_ret.kind = "str"
          /\ log # <<>>
          /\ \/ log[Len(log)].op = "generate_content" /\ log[Len(log)].arg[1] = "ok"
             \/ /\ log[Len(log)].op = "fallback_analysis"
                /\ \/ a_ret.v = <<"Unable to analyze the image due to API issues. Please try again later.">>
                   \/ a_ret.v[1] = "Fallback Analysis:"
    /\ a_pc = "raised" =>
          /\ log # <<>>
          /\ log[Len(log)].op = "generate_content" /\ log[Len(log)].arg = <<"fault">>

C10_Witness ==
    /\ a_pc = "returned"
    /\ Attempts = 2
    /\ FailedAttempts = 1
    /\ a_ret = StrVal(<<"1. Current health issues ...">>)

\* ==================================================== Doctor Finder claims
IsRequest(e) == e.op = "requests.get"
IsParse(e) == e.op = "response.json"
Requests == Len(SelectSeq(log, IsRequest))
Parses == Len(SelectSeq(log, IsParse))
DoctorsEnded == d_pc \in {"returned", "raised"}
Configured == google_maps_api_key.kind = "str" /\ google_maps_api_key.v # <<>>
Answered == response.status_code # 0

\* C4: with a credential, a status 200 and a results array of n well-formed
\* entries, the call returns min(n, 5) strings, the i-th being
\* "{name} - {formatted_address}" of the i-th result.
C4_FirstFive ==
    (/\ DoctorsEnded /\ Configured /\ Answered
     /\ response.status_code = 200 /\ response.json /\ response.has_results
     /\ \A i \in DOMAIN response.results : WellFormed(response.results[i]))
    => LET n == Len(response.results)
           m == IF n < 5 THEN n ELSE 5
       IN  /\ d_pc = "returned"
           /\ d_ret.kind = "list"
           /\ Len(d_ret.v) = m
           /\ \A i \in 1..m :
                 d_ret.v[i] = response.results[i].name \o <<" - ">>
                              \o response.results[i].formatted_address

C4_Witness ==
    /\ d_pc = "returned" /\ Configured
    /\ response.status_code = 200 /\ response.has_results
    /\ Len(response.results) = 7
    /\ Len(d_ret.v) = 5
    /\ d_ret.v[1] = <<"Dr. ", "7", " - ", "Addr ", "7">>

\* C5: without a credential every call returns one explanatory string and
\* makes no network request.
C5_NoCredential ==
    (google_maps_api_key.kind = "None" \/ google_maps_api_key.v = <<>>) =>
        /\ Requests = 0
        /\ d_pc \in {"idle", "guard", "returned"}
        /\ d_pc = "returned" =>
              d_ret = ListVal(<<<<"Google Maps API Key not found. Cannot fetch doctor recommendations.">>>>)

C5_Witness ==
    /\ google_maps_api_key = StrVal(<<>>)
    /\ d_pc = "returned"
    /\ d_location = <<"Pune">>
    /\ specialization = <<"Cardiologist">>

\* C6: on any status other than 200 the call returns the one generic string,
\* whatever the body, without parsing it and after exactly one request.
C6_Not200 ==
    (DoctorsEnded /\ Answered /\ response.status_code # 200) =>
        /\ d_pc = "returned"
        /\ d_ret = ListVal(<<<<"No doctors found or API issue occurred.">>>>)
        /\ Requests = 1
        /\ Parses = 0

C6_Witness ==
    /\ d_pc = "returned"
    /\ response.status_code = 204
    /\ response.json /\ response.has_results /\ response.results # <<>>

\* C7: on status 200 with a JSON body that has no results field the call
\* returns the one generic "no doctors found" string.
C7_MissingResults ==
    (d_pc = "returned" /\ response.status_code = 200 /\ response.json /\ ~response.has_results)
    => d_ret = ListVal(<<<<"No doctors found or API issue occurred.">>>>)

\* ================================================ Presentation Layer claims
IsTmpFile(e) == e.op = "NamedTemporaryFile"
IsAnalyzerCall(e) == e.op = "analyze_medical_report" /\ e.arg = <<"call">>
IsDoctorsCall(e) == e.op = "get_doctors" /\ e.arg = <<"call">>
IsExtract(e) == e.op = "extract_text_from_pdf"
AnalyzerCalls == Len(SelectSeq(log, IsAnalyzerCall))
DoctorsCalls == Len(SelectSeq(log, IsDoctorsCall))
RunEnded == pc \in {"done", "fault"}
Before(i, op, arg) == \E j \in 1..(i - 1) : log[j].op = op /\ log[j].arg = arg

\* C3: when main() ends, however it ends, no temporary file is left on disk, and
\* a run in which no analyze button was pressed created none.
C3_TempFilesDeleted ==
    RunEnded =>
        /\ files = {}
        /\ SelectSeq(log, IsTmpFile) # <<>> => pressed

\* C9 as stated: a run in which an analyze button was pressed invokes the
\* Report Analyzer exactly once; a run without a press invokes neither the
\* analyzer nor the Doctor Finder.
C9_AnalyzerExactlyOnce ==
    RunEnded =>
        /\ pressed => AnalyzerCalls = 1
        /\ ~pressed => AnalyzerCalls = 0 /\ DoctorsCalls = 0

\* C9, amended: in one run the Report Analyzer is invoked at most once: exactly
\* once in a run that presses an analyze button, except that it is not invoked
\* when the Content Extractor (PDF branch) ends with a fault; the extractor
\* runs only in the PDF branch and before the analyzer; the Doctor Finder is
\* invoked at most once, only after the analyzer has returned and only for a
\* non-empty location, and after a returned analysis with a location it is
\* invoked; a run without a press invokes none of them, and remote calls
\* happen only inside these invocations.
C9_Pipeline ==
    /\ AnalyzerCalls <= 1
    /\ DoctorsCalls <= 1
    /\ ~pressed => \A i \in DOMAIN log : log[i].op \in {"NamedTemporaryFile", "os.unlink"}
    /\ \A i \in DOMAIN log :
          /\ IsExtract(log[i]) => file_type = "PDF" /\ pressed
          /\ IsAnalyzerCall(log[i]) =>
                /\ pressed
                /\ IF file_type = "PDF"
                   THEN i > 1 /\ log[i - 1] = Event("extract_text_from_pdf", 0, <<"return">>)
                   ELSE SelectSeq(log, IsExtract) = <<>>
          /\ IsDoctorsCall(log[i]) =>
                /\ location # <<>>
                /\ i > 1 /\ log[i - 1] = Event("analyze_medical_report", 0, <<"return">>)
          /\ log[i].op \in {"generate_content", "sleep", "fallback_analysis"} =>
                /\ Before(i, "analyze_medical_report", <<"call">>)
                /\ ~Before(i, "analyze_medical_report", <<"return">>)
          /\ log[i].op \in {"requests.get", "response.json"} =>
                /\ Before(i, "get_doctors", <<"call">>)
                /\ ~Before(i, "get_doctors", <<"return">>)
    /\ (RunEnded /\ pressed) =>
          /\ AnalyzerCalls = (IF Event("extract_text_from_pdf", 0, <<"fault">>) \in
                                    {log[i] : i \in DOMAIN log} THEN 0 ELSE 1)
          /\ DoctorsCalls = (IF location # <<>> /\ analysis # NoneVal THEN 1 ELSE 0)
          /\ doctors # NoneVal => analysis # NoneVal

C9_Witness ==
    /\ pc = "done" /\ pressed
    /\ file_type = "PDF"
    /\ location = <<"Pune">>
    /\ AnalyzerCalls = 1 /\ DoctorsCalls = 1
    /\ analysis.kind = "str"
    /\ doctors.kind = "list" /\ Len(doctors.v) = 5

====
